---- MODULE Spec2Model ----
(***************************************************************************)
(* Model of the NoorSigner connection and launch logic of noornote         *)
(* (src-tauri/src/key_signer.rs for Linux and macOS,                       *)
(* src-tauri/src/key_signer_windows.rs for Windows).                       *)
(*                                                                         *)
(* Text is a sequence of one-character strings.  The trust-session file,   *)
(* the daemon endpoint and the wall clock are the environment; an          *)
(* invocation of launch_key_signer is a task that takes one step per       *)
(* statement that reads or changes the environment.                        *)
(***************************************************************************)
EXTENDS Integers, Sequences, FiniteSets, TLC

\* ------------------------------------------------------------------ bounds
\* Longest trust-session file content enumerated for the parser.
MaxLen == 6
\* Largest wall-clock reading (seconds since the epoch).
MaxClock == 3
\* A sleep of one poll interval may overrun by up to this many intervals.
SleepJitter == 1
\* Daemon processes are counted up to this many ("this many or more").
MaxDaemons == 2
\* Longest request payload.
MaxPayload == 2
\* Most bytes a peer writes that are not an echo of the request.
MaxInbox == 2

\* --------------------------------------------------------- program values
\* Duration::from_secs(3) counted in sleeps of Duration::from_millis(100).
TimeoutTicks == 30
\* parts.len() != 4
FieldCount == 4
\* set_read_timeout(Some(Duration::from_secs(10))), in seconds
ReadTimeoutTicks == 10

Platforms == {"linux", "macos", "windows"}
Unix == {"linux", "macos"}

ValidModes == {"init", "daemon", "add-account"}
InvalidModes == {"Daemon", ""}
Modes == ValidModes \cup InvalidModes

\* ------------------------------------------------------------------- text
Chars == {":", "1", "-", "x"}
DigitChars == {"0", "1", "2", "3", "4", "5", "6", "7", "8", "9"}
NoFile == <<"absent">>

DigitVal(c) ==
    CASE c = "0" -> 0 [] c = "1" -> 1 [] c = "2" -> 2 [] c = "3" -> 3
      [] c = "4" -> 4 [] c = "5" -> 5 [] c = "6" -> 6 [] c = "7" -> 7
      [] c = "8" -> 8 [] c = "9" -> 9

\* content.split(':').collect(): n separators give n + 1 fields, the empty
\* content gives one empty field.
Split(content) ==
    LET F[i \in 0..Len(content)] ==
            IF i = 0 THEN << <<>> >>
            ELSE LET prev == F[i - 1] IN
                 IF content[i] = ":" THEN Append(prev, <<>>)
                 ELSE [prev EXCEPT ![Len(prev)] = Append(@, content[i])]
    IN F[Len(content)]

\* Value of a string of decimal digits.
Magnitude(digits) ==
    LET V[i \in 0..Len(digits)] ==
            IF i = 0 THEN 0 ELSE 10 * V[i - 1] + DigitVal(digits[i])
    IN V[Len(digits)]

\* str::parse::<i64>(): an optional sign, then one or more decimal digits and
\* nothing else (no surrounding white space).  The texts enumerated here have
\* at most MaxLen digits, far inside the range of i64, so the overflow error
\* of the parser is out of reach.
ParseI64(s) ==
    LET signed == Len(s) > 0 /\ s[1] \in {"+", "-"}
        digits == IF signed THEN Tail(s) ELSE s
        wellFormed == Len(digits) > 0
                      /\ \A i \in 1..Len(digits) : digits[i] \in DigitChars
    IN IF ~wellFormed THEN [ok |-> FALSE, val |-> 0]
       ELSE [ok |-> TRUE,
             val |-> IF signed /\ s[1] = "-" THEN 0 - Magnitude(digits)
                     ELSE Magnitude(digits)]

\* ---------------------------------------------------- check_trust_session
WrongFieldCountLoose(parts) == Len(parts) < FieldCount
\* if parts.len() != 4 { return Ok(false); }
WrongFieldCount(parts) == Len(parts) # FieldCount

StillValidInclusive(now, expires_unix) == now <= expires_unix
\* Ok(now < expires_unix)
StillValid(now, expires_unix) == now < expires_unix

\* .map_err(|_| "Invalid expiry timestamp".to_string())?
ParseError == "Err"

\* The command check_trust_session: file is the content of the trust-session
\* file or NoFile, now the wall clock, homeOk whether the directory lookup
\* (HOME, APPDATA) succeeds and readOk whether fs::read_to_string succeeds.
\* The result is Ok(true), Ok(false) or Err(..).
check_trust_session(file, now, homeOk, readOk) ==
    IF ~homeOk THEN "Err"
    ELSE IF file = NoFile THEN "OkFalse"
    ELSE IF ~readOk THEN "Err"
    ELSE LET parts == Split(file) IN
         IF WrongFieldCount(parts) THEN "OkFalse"
         ELSE LET expires_unix == ParseI64(parts[2]) IN
              IF ~expires_unix.ok THEN ParseError
              ELSE IF StillValid(now, expires_unix.val) THEN "OkTrue"
              ELSE "OkFalse"

\* check_trust_session().await.unwrap_or(false)
UnwrapOrFalse(result) == result = "OkTrue"

\* ------------------------------------------------------------------ state
Procs == {1, 2}

VARIABLES
    platform,   \* the build target: which cfg branches and which file apply
    trustFile,  \* content of the trust-session file, or NoFile
    clock,      \* SystemTime::now() in seconds
    endpoint,   \* the daemon endpoint: "none", "live" (a daemon listens) or
                \* "stale" (a socket file no daemon listens on, Unix only)
    task,       \* per invocation of launch_key_signer: position and locals
    cmd,        \* the last answer of the command check_trust_session
    req,        \* the invocation of key_signer_request and its connection
    kill,       \* the last answer of the command cancel_key_signer_launch
    daemons,    \* number of noorsigner daemon processes alive
    stall       \* what the last timed-out launch left of the trust session:
                \* "purged" (no file), "kept" (the file is still there) or
                \* "none" (no timed-out launch since the last session written)

vars == <<platform, trustFile, clock, endpoint, task, cmd, req, kill, daemons,
          stall>>

\* Well-formed session expiring at 3, a record of three fields, and a record
\* of four fields whose expires_unix is not a number.
SessionGood == <<"x", ":", "3", ":", "1", ":", "x">>
SessionShort == <<"x", ":", "3", ":", "1">>
SessionUnparsable == <<"x", ":", "x", ":", "1", ":", "x">>
TrustSamples == {SessionGood, SessionShort, SessionUnparsable}

\* Every text of at most MaxLen characters.
AllContents == UNION {[1..n -> Chars] : n \in 0..MaxLen}

\* Position and locals of a launch_key_signer invocation that has not started.
\* mode, command, has_trust_session, daemon_already_running, launched are the
\* locals of the function; elapsed is start.elapsed() in poll intervals.  The
\* other fields record what the invocation has done so far: detached (spawn
\* calls of the background daemon), spawned (those that succeeded),
\* sawRunning (a probe of the poll loop found the daemon), live (the
\* endpoint came up before the bound expired and has stayed up), timedOut, invalidated (runs of the delete block), removed
\* (files deleted), interactive (runs of the terminal launch), hosts
\* (terminal hosts started), seenFile and seenClock (what the eligibility
\* check read), checkEndpoint and probeEndpoint (what the endpoint was when
\* the eligibility check and the last probe looked at it), prior (stall as
\* it was when the eligibility check read the trust session).
IdleTask ==
    [pc |-> "idle", mode |-> "", command |-> "", err |-> "none",
     has_trust_session |-> FALSE, daemon_already_running |-> FALSE,
     elapsed |-> 0, launched |-> FALSE,
     detached |-> 0, spawned |-> 0, sawRunning |-> FALSE, live |-> FALSE,
     timedOut |-> FALSE, invalidated |-> 0, removed |-> 0,
     interactive |-> 0, hosts |-> 0, seenFile |-> NoFile, seenClock |-> 0,
     checkEndpoint |-> "none", probeEndpoint |-> "none", prior |-> "none",
     touched |-> FALSE]

\* Request payloads: one line of text, here of letters and blanks.
PayloadChars == {"a", " "}
Payloads == UNION {[1..n -> PayloadChars] : n \in 0..MaxPayload}

\* An invocation of key_signer_request that has not started.  request and
\* response are the locals of the function, inbox the bytes the peer has
\* written to the connection, conn the connection ("none", "open", or
\* "closed" by the peer), idle the seconds the pending read has waited.  The
\* other fields record what happened: tried (connect was called), listener
\* (a daemon was listening then), echoed (the peer wrote the request back
\* followed by one line terminator, and nothing else).
IdleReq ==
    [pc |-> "idle", request |-> <<>>, response |-> <<>>, err |-> "none",
     inbox |-> <<>>, conn |-> "none", idle |-> 0,
     tried |-> FALSE, listener |-> FALSE, echoed |-> FALSE]

NoKill == [res |-> "none", found |-> FALSE, ran |-> FALSE]

NoCmd == [res |-> "none", file |-> NoFile, now |-> 0, homeOk |-> TRUE,
          readOk |-> TRUE]

\* socket_path.exists(): the socket file is there, listener or not
socket_path_exists == endpoint # "none"
\* OpenOptions::new().read(true).write(true).open(PIPE_NAME).is_ok()
is_daemon_running == endpoint = "live"
\* The liveness check launch_key_signer uses on the platform.
DaemonObserved == IF platform \in Unix THEN socket_path_exists
                  ELSE is_daemon_running

\* The same check on the endpoint value e.
ObservedAt(e) == IF platform \in Unix THEN e # "none" ELSE e = "live"

\* n more daemon processes are alive.
Started(count, n) == IF count + n > MaxDaemons THEN MaxDaemons ELSE count + n

Fail(p, why) == [task EXCEPT ![p].pc = "failed", ![p].err = why]

\* ------------------------------------------------------ launch_key_signer
\* launch_key_signer(mode) is called.
Launch(p, m) ==
    /\ task[p].pc = "idle"
    /\ task' = [task EXCEPT ![p] = [IdleTask EXCEPT !.pc = "install",
                                                    !.mode = m]]
    /\ UNCHANGED <<platform, trustFile, clock, endpoint, cmd, req, kill,
                   daemons, stall>>

\* ensure_noorsigner_installed().await?, the lookup of the binary and the
\* permission update: any of them may fail and end the invocation.  touched
\* tells whether the file system was changed (directory created, binary
\* copied, permissions set): on Unix always on success, where
\* set_permissions runs; otherwise when the binary was not installed yet, and
\* on a failure that comes after the first change.
Install(p) ==
    /\ task[p].pc = "install"
    /\ \E ok \in BOOLEAN, changed \in BOOLEAN :
         /\ (ok /\ platform \in Unix) => changed
         /\ task' = IF ok THEN [task EXCEPT ![p].pc = "validate",
                                            ![p].touched = changed]
                    ELSE [Fail(p, "InstallFailed") EXCEPT
                            ![p].touched = changed]
    /\ UNCHANGED <<platform, trustFile, clock, endpoint, cmd, req, kill,
                   daemons, stall>>

\* match mode.as_str() { "init" => .., "daemon" => .., "add-account" => ..,
\*                       _ => return Err(format!("Invalid mode: {}", mode)) }
MatchMode(m) == IF m \in ValidModes THEN [ok |-> TRUE, command |-> m]
                ELSE [ok |-> FALSE, command |-> ""]

Validate(p) ==
    /\ task[p].pc = "validate"
    /\ LET r == MatchMode(task[p].mode) IN
       task' = IF r.ok THEN [task EXCEPT ![p].pc = "check_trust",
                                         ![p].command = r.command]
               ELSE Fail(p, "InvalidMode")
    /\ UNCHANGED <<platform, trustFile, clock, endpoint, cmd, req, kill,
                   daemons, stall>>

\* let has_trust_session = check_trust_session().await.unwrap_or(false);
\* the directory lookup succeeded in Install already.
CheckTrust(p) ==
    /\ task[p].pc = "check_trust"
    /\ \E readOk \in BOOLEAN :
         task' = [task EXCEPT
                    ![p].pc = "check_running",
                    ![p].has_trust_session =
                        UnwrapOrFalse(check_trust_session(trustFile, clock,
                                                          TRUE, readOk)),
                    ![p].seenFile = IF readOk THEN trustFile ELSE NoFile,
                    ![p].seenClock = clock,
                    ![p].prior = stall]
    /\ UNCHANGED <<platform, trustFile, clock, endpoint, cmd, req, kill,
                   daemons, stall>>

BackgroundLaunchAnyMode(has_trust_session, daemon_already_running, m) ==
    has_trust_session /\ ~daemon_already_running
BackgroundLaunchExclusive(has_trust_session, daemon_already_running, m) ==
    /\ has_trust_session /\ ~daemon_already_running /\ m = "daemon"
    /\ \A q \in Procs : task[q].pc \notin {"spawn_detached", "poll", "sleep"}
BackgroundLaunchIgnoreTrust(has_trust_session, daemon_already_running, m) ==
    ~daemon_already_running /\ m = "daemon"
BackgroundLaunchIgnoreRunning(has_trust_session, daemon_already_running, m) ==
    has_trust_session /\ m = "daemon"
\* if has_trust_session && !daemon_already_running && mode == "daemon"
UseBackgroundLaunch(has_trust_session, daemon_already_running, m) ==
    has_trust_session /\ ~daemon_already_running /\ m = "daemon"

\* let daemon_already_running = socket_path.exists();  (is_daemon_running()
\* on Windows), then the choice between the background and the terminal
\* launch.
CheckRunning(p) ==
    /\ task[p].pc = "check_running"
    /\ task' = [task EXCEPT
                  ![p].daemon_already_running = DaemonObserved,
                  ![p].checkEndpoint = endpoint,
                  ![p].pc = IF UseBackgroundLaunch(task[p].has_trust_session,
                                                   DaemonObserved,
                                                   task[p].mode)
                            THEN "spawn_detached" ELSE "interactive"]
    /\ UNCHANGED <<platform, trustFile, clock, endpoint, cmd, req, kill,
                   daemons, stall>>

SpawnFailureFallsBack(p) == [task EXCEPT ![p].pc = "interactive",
                                         ![p].detached = 1]
\* .spawn().map_err(|e| format!("Failed to launch NoorSigner in background:
\* {}", e))?
SpawnFailure(p) == [Fail(p, "SpawnFailed") EXCEPT ![p].detached = 1]

\* Command::new(&noorsigner_path).arg(command)...spawn()?; let start =
\* Instant::now();
SpawnDetached(p) ==
    /\ task[p].pc = "spawn_detached"
    /\ \E ok \in BOOLEAN :
         task' = IF ok
                 THEN [task EXCEPT ![p].pc = "poll", ![p].detached = 1,
                                   ![p].spawned = 1, ![p].elapsed = 0,
                                   ![p].live = DaemonObserved]
                 ELSE SpawnFailure(p)
    /\ daemons' = Started(daemons, task'[p].spawned)
    /\ UNCHANGED <<platform, trustFile, clock, endpoint, cmd, req, kill,
                   stall>>

ProbeThenInvalidate(p, seen) ==
    [task EXCEPT ![p].pc = IF seen THEN "invalidate" ELSE "sleep",
                 ![p].sawRunning = seen, ![p].probeEndpoint = endpoint]
ProbeIgnored(p, seen) == [task EXCEPT ![p].pc = "sleep",
                                      ![p].sawRunning = seen,
                                      ![p].probeEndpoint = endpoint]
\* if socket_path.exists() { return Ok(()); }   (is_daemon_running())
Probe(p, seen) ==
    IF seen THEN [task EXCEPT ![p].pc = "done", ![p].sawRunning = TRUE,
                              ![p].probeEndpoint = endpoint]
    ELSE [task EXCEPT ![p].pc = "sleep", ![p].probeEndpoint = endpoint]

TimeoutSkipsInvalidate(p) == [task EXCEPT ![p].pc = "interactive",
                                          ![p].timedOut = TRUE]
\* The loop condition is false: on to the removal of the trust session.
TimedOut(p) == [task EXCEPT ![p].pc = "invalidate", ![p].timedOut = TRUE]

\* while start.elapsed() < timeout { probe; sleep }
Poll(p) ==
    /\ task[p].pc = "poll"
    /\ task' = IF task[p].elapsed < TimeoutTicks
               THEN Probe(p, DaemonObserved)
               ELSE TimedOut(p)
    /\ UNCHANGED <<platform, trustFile, clock, endpoint, cmd, req, kill,
                   daemons, stall>>

ElapsedStuck(elapsed, d) == elapsed
\* start.elapsed() after a sleep of d intervals (Instant is monotonic).  Every
\* reading at or past the bound behaves alike and is kept as the bound.
ElapsedAfter(elapsed, d) ==
    IF elapsed + d > TimeoutTicks THEN TimeoutTicks ELSE elapsed + d

\* std::thread::sleep(Duration::from_millis(100)): at least one interval.
Sleep(p) ==
    /\ task[p].pc = "sleep"
    /\ \E d \in 1..(1 + SleepJitter) :
         task' = [task EXCEPT
                    ![p].pc = "poll",
                    ![p].elapsed = ElapsedAfter(task[p].elapsed, d)]
    /\ UNCHANGED <<platform, trustFile, clock, endpoint, cmd, req, kill,
                   daemons, stall>>

InvalidatePropagates(p) ==
    /\ task[p].pc = "invalidate"
    /\ \E rmOk \in BOOLEAN :
         IF trustFile # NoFile /\ rmOk
         THEN /\ trustFile' = NoFile
              /\ task' = [task EXCEPT ![p].pc = "interactive",
                                      ![p].invalidated = @ + 1,
                                      ![p].removed = @ + 1]
         ELSE /\ trustFile' = trustFile
              /\ task' = [Fail(p, "RemoveFailed") EXCEPT
                            ![p].invalidated = @ + 1]
    /\ stall' = IF trustFile' = NoFile THEN "purged" ELSE "kept"
    /\ UNCHANGED <<platform, clock, endpoint, cmd, req, kill, daemons>>
\* if trust_session_path.exists() { let _ = std::fs::remove_file(..); }
\* The removal may fail; its result is dropped.  The directory lookup before
\* it (HOME, APPDATA) has succeeded in Install and in CheckTrust already.
Invalidate(p) ==
    /\ task[p].pc = "invalidate"
    /\ \E rmOk \in BOOLEAN :
         IF trustFile # NoFile /\ rmOk
         THEN /\ trustFile' = NoFile
              /\ task' = [task EXCEPT ![p].pc = "interactive",
                                      ![p].invalidated = @ + 1,
                                      ![p].removed = @ + 1]
         ELSE /\ trustFile' = trustFile
              /\ task' = [task EXCEPT ![p].pc = "interactive",
                                      ![p].invalidated = @ + 1]
    /\ stall' = IF trustFile' = NoFile THEN "purged" ELSE "kept"
    /\ UNCHANGED <<platform, clock, endpoint, cmd, req, kill, daemons>>

\* let terminals = ["gnome-terminal", "konsole", "xterm"];
terminals == <<"gnome-terminal", "konsole", "xterm">>

\* Linux: the terminals are tried in order until one spawns; avail is the set
\* of those that can be spawned.
InteractiveLinux(p) ==
    \E avail \in SUBSET (1..Len(terminals)) :
        LET launched == avail # {} IN
        task' = IF launched
                THEN [task EXCEPT ![p].pc = "done", ![p].interactive = @ + 1,
                                  ![p].launched = TRUE, ![p].hosts = @ + 1]
                ELSE [Fail(p, "NoTerminal") EXCEPT ![p].interactive = @ + 1]

\* macOS: osascript is run and waited for; it may fail to start or exit with
\* a failure status.
InteractiveMacos(p) ==
    \E outcome \in {"ok", "spawn_error", "status_failure"} :
        task' = IF outcome = "ok"
                THEN [task EXCEPT ![p].pc = "done", ![p].interactive = @ + 1,
                                  ![p].hosts = @ + 1]
                ELSE [Fail(p, "TerminalFailed") EXCEPT
                        ![p].interactive = @ + 1]

\* Windows: three variants are spawned one after the other and every result
\* is dropped; started is the set of variants that opened a console.
InteractiveWindows(p) ==
    \E started \in SUBSET {"A", "B", "C"} :
        task' = [task EXCEPT ![p].pc = "done", ![p].interactive = @ + 1,
                             ![p].hosts = @ + Cardinality(started)]

\* The terminal launch that ends launch_key_signer.
Interactive(p) ==
    /\ task[p].pc = "interactive"
    /\ CASE platform = "linux" -> InteractiveLinux(p)
         [] platform = "macos" -> InteractiveMacos(p)
         [] platform = "windows" -> InteractiveWindows(p)
    /\ daemons' = IF task[p].command = "daemon"
                  THEN Started(daemons, task'[p].hosts - task[p].hosts)
                  ELSE daemons
    /\ UNCHANGED <<platform, trustFile, clock, endpoint, cmd, req, kill,
                   stall>>

\* The result is handed to the caller; the task may be invoked again.
Return(p) ==
    /\ task[p].pc \in {"done", "failed"}
    /\ task' = [task EXCEPT ![p] = IdleTask]
    /\ UNCHANGED <<platform, trustFile, clock, endpoint, cmd, req, kill,
                   daemons, stall>>

\* ------------------------------------------------------------ environment
\* The endpoint changes to e.  An invocation that is polling notes whether
\* the endpoint came up before its bound expired and has stayed up since.
EndpointBecomes(e) ==
    /\ endpoint' = e
    /\ task' = [p \in Procs |->
                  IF task[p].pc \in {"poll", "sleep"}
                  THEN [task[p] EXCEPT
                          !.live = ObservedAt(e)
                                   /\ (task[p].live
                                       \/ task[p].elapsed < TimeoutTicks)]
                  ELSE task[p]]

\* What the endpoint may be once its listener is gone: on Unix the socket
\* file may be left behind.
Gone == IF platform \in Unix THEN {"none", "stale"} ELSE {"none"}

\* The user starts a daemon by hand.
DaemonStarted ==
    /\ daemons < MaxDaemons
    /\ daemons' = daemons + 1
    /\ UNCHANGED <<platform, trustFile, clock, endpoint, task, cmd, req, kill,
                   stall>>

\* A daemon process that does not listen (it waits for the passphrase, or it
\* could not use the trust session) exits.
DaemonExits ==
    /\ daemons > (IF endpoint = "live" THEN 1 ELSE 0)
    /\ daemons' = daemons - 1
    /\ UNCHANGED <<platform, trustFile, clock, endpoint, task, cmd, req, kill,
                   stall>>

\* A daemon process begins to listen.
DaemonUp ==
    /\ endpoint # "live"
    /\ daemons > 0
    /\ EndpointBecomes("live")
    /\ UNCHANGED <<platform, trustFile, clock, cmd, req, kill, daemons,
                   stall>>

\* The listening daemon exits.
DaemonDown ==
    /\ endpoint = "live"
    /\ \E e \in Gone : EndpointBecomes(e)
    /\ daemons' = daemons - 1
    /\ UNCHANGED <<platform, trustFile, clock, cmd, req, kill, stall>>

\* A socket file left behind is removed.
SocketRemoved ==
    /\ endpoint = "stale"
    /\ EndpointBecomes("none")
    /\ UNCHANGED <<platform, trustFile, clock, cmd, req, kill, daemons,
                   stall>>

\* The running daemon writes a trust session after an unlock.
SessionWritten ==
    /\ endpoint = "live"
    /\ \E c \in TrustSamples : c # trustFile /\ trustFile' = c
    /\ stall' = "none"
    /\ UNCHANGED <<platform, clock, endpoint, task, cmd, req, kill, daemons>>

\* The running daemon drops its trust session (the signer is locked).
SessionCleared ==
    /\ endpoint = "live"
    /\ trustFile # NoFile
    /\ trustFile' = NoFile
    /\ UNCHANGED <<platform, clock, endpoint, task, cmd, req, kill, daemons,
                   stall>>

\* The wall clock advances.
Tick ==
    /\ clock < MaxClock
    /\ clock' = clock + 1
    /\ UNCHANGED <<platform, trustFile, endpoint, task, cmd, req, kill,
                   daemons, stall>>

\* --------------------------------------------------------------- commands
\* The command check_trust_session is invoked by the front end.
CheckTrustSessionCmd ==
    /\ \E homeOk \in BOOLEAN, readOk \in BOOLEAN :
         cmd' = [res |-> check_trust_session(trustFile, clock, homeOk, readOk),
                 file |-> trustFile, now |-> clock,
                 homeOk |-> homeOk, readOk |-> readOk]
    /\ UNCHANGED <<platform, trustFile, clock, endpoint, task, req, kill,
                   daemons, stall>>

\* The answer of check_trust_session has been handed to the front end.
CmdReturn ==
    /\ cmd # NoCmd
    /\ cmd' = NoCmd
    /\ UNCHANGED <<platform, trustFile, clock, endpoint, task, req, kill,
                   daemons, stall>>

\* ----------------------------------------------------- key_signer_request
Whitespace == {" ", "\n", "\r", "\t"}

\* response.trim_end(): every trailing white-space character is removed.
TrimEnd(text) ==
    LET kept == {i \in 1..Len(text) : text[i] \notin Whitespace}
        last == IF kept = {} THEN 0
                ELSE CHOOSE i \in kept : \A j \in kept : j <= i
    IN SubSeq(text, 1, last)

\* reader.read_line(&mut response) on the bytes received: the bytes up to and
\* including the first "\n".
HasLine(bytes) == \E i \in 1..Len(bytes) : bytes[i] = "\n"
FirstLine(bytes) ==
    LET ends == {i \in 1..Len(bytes) : bytes[i] = "\n"}
        first == CHOOSE i \in ends : \A j \in ends : i <= j
    IN SubSeq(bytes, 1, first)

\* key_signer_request(request) is called.
Request(payload) ==
    /\ req.pc = "idle"
    /\ req' = [IdleReq EXCEPT !.pc = "connect", !.request = payload]
    /\ UNCHANGED <<platform, trustFile, clock, endpoint, task, cmd, kill,
                   daemons, stall>>

ConnectErrorAsTimeout == "Timeout"
\* .map_err(|e| format!("Failed to connect to KeySigner daemon: {}. Is the
\* daemon running?", e))?
ConnectError == "ConnectionFailed"

\* get_socket_path()?; UnixStream::connect(&socket_path)?  (on Windows
\* OpenOptions::new().read(true).write(true).open(PIPE_NAME)?): the connection
\* is made when a daemon listens; a socket file without a listener refuses it.
ReqConnect ==
    /\ req.pc = "connect"
    /\ \E homeOk \in BOOLEAN :
         req' = IF platform \in Unix /\ ~homeOk
                THEN [req EXCEPT !.pc = "failed", !.err = "NoHome"]
                ELSE IF endpoint = "live"
                THEN [req EXCEPT !.pc = IF platform \in Unix
                                        THEN "set_timeouts" ELSE "write",
                                 !.conn = "open", !.tried = TRUE,
                                 !.listener = TRUE]
                ELSE [req EXCEPT !.pc = "failed", !.err = ConnectError,
                                 !.tried = TRUE]
    /\ UNCHANGED <<platform, trustFile, clock, endpoint, task, cmd, kill,
                   daemons, stall>>

\* stream.set_read_timeout(..)?; stream.set_write_timeout(..)?  (Unix only)
ReqSetTimeouts ==
    /\ req.pc = "set_timeouts"
    /\ \E ok \in BOOLEAN :
         req' = IF ok THEN [req EXCEPT !.pc = "write"]
                ELSE [req EXCEPT !.pc = "failed", !.err = "SetTimeoutFailed"]
    /\ UNCHANGED <<platform, trustFile, clock, endpoint, task, cmd, kill,
                   daemons, stall>>

\* stream.write_all(request.as_bytes())?; stream.write_all(b"\n")?  (one
\* write_all and a flush on Windows): the write may fail or time out.
ReqWrite ==
    /\ req.pc = "write"
    /\ \E ok \in BOOLEAN :
         req' = IF ok THEN [req EXCEPT !.pc = "read"]
                ELSE [req EXCEPT !.pc = "failed", !.err = "SendFailed"]
    /\ UNCHANGED <<platform, trustFile, clock, endpoint, task, cmd, kill,
                   daemons, stall>>

\* The read timeout set on the Unix stream; the Windows pipe has none.
ReadTimesOut(idle) == platform \in Unix /\ idle >= ReadTimeoutTicks

\* A second passes while read_line waits for bytes.  Every wait longer than
\* the timeout behaves alike and is kept as the timeout plus one.
ReqWait ==
    /\ req.pc = "read"
    /\ ~HasLine(req.inbox)
    /\ req.conn = "open"
    /\ ~ReadTimesOut(req.idle)
    /\ req.idle <= ReadTimeoutTicks
    /\ req' = [req EXCEPT !.idle = @ + 1]
    /\ UNCHANGED <<platform, trustFile, clock, endpoint, task, cmd, kill,
                   daemons, stall>>

\* Ok(response.trim_end().to_string())
Response(line) == TrimEnd(line)

\* reader.read_line(&mut response).map_err(..)?; Ok(response.trim_end()..):
\* a line that has arrived is returned; at the end of the stream read_line
\* returns what it has; a read that waited for the timeout fails with
\* TimedOut or WouldBlock; any other read error is reported as such.
ReqRead ==
    /\ req.pc = "read"
    /\ IF HasLine(req.inbox)
       THEN req' = [req EXCEPT !.pc = "done",
                               !.response = Response(FirstLine(req.inbox))]
       ELSE IF req.conn = "closed"
       THEN \E reset \in BOOLEAN :
              req' = IF reset
                     THEN [req EXCEPT !.pc = "failed", !.err = "ReadFailed"]
                     ELSE [req EXCEPT !.pc = "done",
                                      !.response = Response(req.inbox)]
       ELSE /\ ReadTimesOut(req.idle)
            /\ req' = [req EXCEPT !.pc = "failed", !.err = "Timeout"]
    /\ UNCHANGED <<platform, trustFile, clock, endpoint, task, cmd, kill,
                   daemons, stall>>

\* The result is handed to the front end.
ReqReturn ==
    /\ req.pc \in {"done", "failed"}
    /\ req' = IdleReq
    /\ UNCHANGED <<platform, trustFile, clock, endpoint, task, cmd, kill,
                   daemons, stall>>

\* The peer writes the request back, followed by one line terminator.
PeerEchoes ==
    /\ req.pc = "read" /\ req.conn = "open"
    /\ req.inbox = <<>> /\ ~req.echoed
    /\ req' = [req EXCEPT !.inbox = Append(req.request, "\n"),
                          !.echoed = TRUE, !.idle = 0]
    /\ UNCHANGED <<platform, trustFile, clock, endpoint, task, cmd, kill,
                   daemons, stall>>

\* The peer writes a byte of a response of its own.
PeerWrites ==
    /\ req.pc = "read" /\ req.conn = "open"
    /\ ~req.echoed /\ Len(req.inbox) < MaxInbox
    /\ \E byte \in {"a", "\n"} :
         req' = [req EXCEPT !.inbox = Append(@, byte), !.idle = 0]
    /\ UNCHANGED <<platform, trustFile, clock, endpoint, task, cmd, kill,
                   daemons, stall>>

\* The peer closes the connection (or dies).
PeerCloses ==
    /\ req.conn = "open"
    /\ req.pc \in {"set_timeouts", "write", "read"}
    /\ req' = [req EXCEPT !.conn = "closed"]
    /\ UNCHANGED <<platform, trustFile, clock, endpoint, task, cmd, kill,
                   daemons, stall>>

\* The steps of a request once it has been made, and of its peer.
ReqSteps ==
    \/ ReqConnect
    \/ ReqSetTimeouts
    \/ ReqWrite
    \/ ReqWait
    \/ ReqRead
    \/ ReqReturn
    \/ PeerEchoes
    \/ PeerWrites
    \/ PeerCloses

\* One request at a time, with a payload of the set given.
ReqNext(payloads) ==
    \/ \E payload \in payloads : Request(payload)
    \/ ReqSteps

\* ----------------------------------------------- cancel_key_signer_launch
KillAnswerStrict(found) == IF found THEN "Ok" ELSE "Err"
\* if output.status.success() { .. Ok(()) } else { .. Ok(()) }
KillAnswer(found) == "Ok"

\* Command::new("pkill").arg("-f").arg("noorsigner.*daemon").output()?
\* (taskkill /F /IM noorsigner.exe on Windows): the tool may fail to start;
\* when it runs it ends every daemon process, and its exit status tells
\* whether there was one.
CancelLaunch ==
    \E toolOk \in BOOLEAN :
        IF toolOk
        THEN /\ kill' = [res |-> KillAnswer(daemons > 0),
                         found |-> daemons > 0, ran |-> TRUE]
             /\ daemons' = 0
             /\ IF endpoint = "live"
                THEN \E e \in Gone : EndpointBecomes(e)
                ELSE UNCHANGED <<endpoint, task>>
             /\ UNCHANGED <<platform, trustFile, clock, cmd, req, stall>>
        ELSE /\ kill' = [res |-> "Err", found |-> daemons > 0,
                         ran |-> FALSE]
             /\ UNCHANGED <<platform, trustFile, clock, endpoint, task, cmd,
                            req, daemons, stall>>

\* The answer of cancel_key_signer_launch has been handed to the front end.
KillReturn ==
    /\ kill # NoKill
    /\ kill' = NoKill
    /\ UNCHANGED <<platform, trustFile, clock, endpoint, task, cmd, req,
                   daemons, stall>>

\* --------------------------------------------------------- specifications
Endpoints == IF platform \in Unix THEN {"none", "live", "stale"}
             ELSE {"none", "live"}

\* Nothing has been invoked; at most one daemon runs, and one does when the
\* endpoint is live.
Quiet ==
    /\ task = [p \in Procs |-> IdleTask]
    /\ cmd = NoCmd
    /\ req = IdleReq
    /\ kill = NoKill
    /\ stall = "none"
    /\ daemons \in {d \in 0..1 : endpoint = "live" => d = 1}

Init ==
    /\ platform \in Platforms
    /\ trustFile \in {NoFile} \cup TrustSamples
    /\ clock = 0
    /\ endpoint \in Endpoints
    /\ Quiet

\* The steps of invocation p of launch_key_signer once it has been called.
LaunchSteps(p) ==
    \/ Install(p)
    \/ Validate(p)
    \/ CheckTrust(p)
    \/ CheckRunning(p)
    \/ SpawnDetached(p)
    \/ Poll(p)
    \/ Sleep(p)
    \/ Invalidate(p)
    \/ Interactive(p)
    \/ Return(p)

\* Invocation p of launch_key_signer, called with a mode of the set given.
LaunchStep(p, modes) ==
    \/ \E m \in modes : Launch(p, m)
    \/ LaunchSteps(p)

Step(p) == LaunchStep(p, Modes)

Env ==
    \/ DaemonStarted
    \/ DaemonExits
    \/ DaemonUp
    \/ DaemonDown
    \/ SocketRemoved
    \/ SessionWritten
    \/ SessionCleared
    \/ Tick

LaunchBusy == \E p \in Procs : task[p].pc # "idle"
ReqBusy == req.pc # "idle"
KillBusy == kill # NoKill
CmdBusy == cmd # NoCmd
AllIdle == ~LaunchBusy /\ ~ReqBusy /\ ~KillBusy /\ ~CmdBusy

\* The payload of the requests made next to the other commands.
SpecPayloads == {<<"a">>}

\* One command at a time, in any environment: a command is invoked when none
\* is in progress.  The commands act on each other only through the
\* environment, which changes freely between their steps.
Next ==
    \/ AllIdle /\ \E m \in Modes : Launch(1, m)
    \/ LaunchSteps(1)
    \/ AllIdle /\ \E payload \in SpecPayloads : Request(payload)
    \/ ReqSteps
    \/ AllIdle /\ CancelLaunch
    \/ KillReturn
    \/ AllIdle /\ CheckTrustSessionCmd
    \/ CmdReturn
    \/ Env

Spec == Init /\ [][Next]_vars

\* The command check_trust_session on every file content and clock reading.
InitTrust ==
    /\ platform \in Platforms
    /\ trustFile \in {NoFile} \cup AllContents
    /\ clock \in 0..MaxClock
    /\ endpoint = "none"
    /\ Quiet
    /\ daemons = 0

NextTrust == CheckTrustSessionCmd

SpecTrust == InitTrust /\ [][NextTrust]_vars

\* Two invocations of launch_key_signer("daemon") at once (the commands are
\* async and the front end may invoke them together), with a valid session
\* on disk and no daemon at the start.
InitConc ==
    /\ platform \in Platforms
    /\ trustFile = SessionGood
    /\ clock = 0
    /\ endpoint = "none"
    /\ Quiet
    /\ daemons = 0

NextConc ==
    \/ \E p \in Procs : LaunchStep(p, {"daemon"})
    \/ DaemonUp
    \/ DaemonDown
    \/ DaemonExits

SpecConc == InitConc /\ [][NextConc]_vars

\* One invocation of launch_key_signer that is scheduled: the thread that
\* runs it takes its next step eventually, whatever the daemon does.  The
\* only daemon processes are one that listens at the start and those the
\* invocation starts.
InitLive ==
    /\ platform \in Platforms
    /\ trustFile \in {NoFile, SessionGood}
    /\ clock = 0
    /\ endpoint \in Endpoints
    /\ Quiet
    /\ daemons = (IF endpoint = "live" THEN 1 ELSE 0)

NextLive ==
    \/ LaunchStep(1, Modes)
    \/ DaemonExits
    \/ DaemonUp
    \/ DaemonDown
    \/ SocketRemoved

SpecLive == InitLive /\ [][NextLive]_vars /\ WF_vars(LaunchSteps(1))

\* key_signer_request on every payload, with a peer that echoes, answers on
\* its own, stays silent or goes away.
InitReq ==
    /\ platform \in Platforms
    /\ trustFile = NoFile
    /\ clock = 0
    /\ endpoint \in Endpoints
    /\ Quiet

NextReq ==
    \/ ReqNext(Payloads)
    \/ DaemonStarted
    \/ DaemonExits
    \/ DaemonUp
    \/ DaemonDown
    \/ SocketRemoved

SpecReq == InitReq /\ [][NextReq]_vars

\* ----------------------------------------------------------------- claims
\* Number of ':'-separated fields of a file content: one more than its colons.
NumFields(file) == Cardinality({i \in 1..Len(file) : file[i] = ":"}) + 1

\* The expires_unix field of a content of at least two fields.
Expiry(file) == ParseI64(Split(file)[2])

\* The content is a session of four fields that expires after now.
ValidSession(file, now) ==
    /\ file # NoFile
    /\ NumFields(file) = 4
    /\ Expiry(file).ok
    /\ now < Expiry(file).val

\* The command has answered for a file it could read.
Answered == cmd.res # "none" /\ cmd.homeOk /\ cmd.readOk /\ cmd.file # NoFile

Finished(t) == t.pc \in {"done", "failed"}

\* The invocation has chosen between the background and the terminal launch.
Decided(t) ==
    /\ t.pc \in {"spawn_detached", "poll", "sleep", "invalidate",
                 "interactive", "done", "failed"}
    /\ t.err \notin {"InstallFailed", "InvalidMode"}

\* C1: launch("daemon") that observes the daemon running at the eligibility
\* check spawns nothing, neither a detached daemon nor a terminal host, and
\* returns success.  (The instance mode = "daemon" of the claim: init and
\* add-account are the modes the eligibility check does not apply to.)
C1_RunningDaemonNoSpawn ==
    \A p \in Procs :
        LET t == task[p] IN
        (t.mode = "daemon" /\ Decided(t) /\ t.daemon_already_running)
            => /\ t.detached = 0
               /\ t.interactive = 0
               /\ t.hosts = 0
               /\ t.pc # "failed"

\* C2: when the poll loop of launch("daemon") ends without a probe having
\* seen the daemon, the trust session is invalidated exactly once, before the
\* terminal launch, and the terminal launch is then attempted.
C2_TimeoutInvalidatesOnceThenInteractive ==
    \A p \in Procs :
        LET t == task[p] IN
        /\ t.invalidated <= 1
        /\ t.invalidated = 1 => t.timedOut
        /\ t.timedOut => /\ t.mode = "daemon"
                         /\ t.has_trust_session
                         /\ ~t.daemon_already_running
                         /\ ~t.sawRunning
        /\ (t.spawned = 1 /\ t.interactive > 0) => t.invalidated = 1
        /\ (t.spawned = 1 /\ ~t.sawRunning /\ Finished(t))
               => /\ t.timedOut
                  /\ t.invalidated = 1
                  /\ t.interactive = 1

\* C2 witness: a poll that timed out, the session file removed, the terminal
\* opened.
C2_Witness ==
    \E p \in Procs :
        /\ task[p].timedOut /\ task[p].pc = "done"
        /\ task[p].invalidated = 1 /\ task[p].removed = 1
        /\ task[p].interactive = 1

\* C3 as stated: after a successful detached spawn, a daemon that comes up
\* before the poll bound expires (and stays up) makes the invocation succeed
\* with no terminal launch and no removal of the trust session.
C3_LiveBeforeBoundSucceeds ==
    \A p \in Procs :
        LET t == task[p] IN
        (t.spawned = 1 /\ t.live)
            => /\ t.interactive = 0
               /\ t.invalidated = 0
               /\ t.pc \notin {"invalidate", "interactive", "failed"}

\* C3 amended: after a successful detached spawn, a readiness probe that sees
\* the daemon running ends the invocation with success, with no terminal
\* launch and the trust session neither removed nor touched.
C3_ProbeSeenSucceeds ==
    \A p \in Procs :
        LET t == task[p] IN
        t.sawRunning => /\ t.pc = "done"
                        /\ t.spawned = 1
                        /\ t.interactive = 0 /\ t.hosts = 0
                        /\ t.invalidated = 0 /\ t.removed = 0
                        /\ ~t.timedOut

\* C3 witness: the daemon came up while the invocation was polling and a
\* later probe saw it.
C3_Witness ==
    \E p \in Procs :
        /\ task[p].sawRunning /\ task[p].pc = "done"
        /\ task[p].elapsed > 0 /\ task[p].live

\* C4: launch("init") and launch("add-account") never spawn a detached daemon,
\* never poll and never remove the trust session, whatever the trust session
\* and the endpoint are; once past the installation they end in the terminal
\* launch.
C4_InteractiveModesBypass ==
    \A p \in Procs :
        LET t == task[p] IN
        t.mode \in {"init", "add-account"}
            => /\ t.pc \notin {"spawn_detached", "poll", "sleep",
                               "invalidate"}
               /\ t.detached = 0 /\ t.spawned = 0
               /\ ~t.sawRunning /\ ~t.timedOut /\ t.elapsed = 0
               /\ t.invalidated = 0 /\ t.removed = 0
               /\ (Finished(t) /\ t.err # "InstallFailed")
                      => t.interactive = 1

\* C4 witness: init went to the terminal although a valid trust session was
\* there and no daemon was running.
C4_Witness ==
    \E p \in Procs :
        /\ task[p].mode = "init" /\ task[p].pc = "done"
        /\ task[p].has_trust_session /\ ~task[p].daemon_already_running
        /\ task[p].interactive = 1

\* C5: launch("daemon") attempts the detached spawn if and only if the
\* eligibility check found a valid trust session and no running daemon.
C5_SilentPathIff ==
    \A p \in Procs :
        LET t == task[p] IN
        (t.mode = "daemon" /\ Decided(t))
            => /\ t.has_trust_session
                    <=> ValidSession(t.seenFile, t.seenClock)
               /\ (t.detached = 1 \/ t.pc = "spawn_detached")
                    <=> (ValidSession(t.seenFile, t.seenClock)
                         /\ ~t.daemon_already_running)

\* C5 witness: the detached spawn was made.
C5_Witness ==
    \E p \in Procs :
        /\ task[p].mode = "daemon" /\ task[p].detached = 1
        /\ task[p].pc = "poll"

\* C6: a detached spawn that fails ends the invocation with that error: no
\* poll, no removal of the trust session, no terminal launch.
C6_SpawnFailureIsFinal ==
    \A p \in Procs :
        LET t == task[p] IN
        (t.detached = 1 /\ t.spawned = 0)
            => /\ t.pc = "failed" /\ t.err = "SpawnFailed"
               /\ t.interactive = 0 /\ t.hosts = 0
               /\ t.invalidated = 0 /\ t.removed = 0
               /\ ~t.sawRunning /\ ~t.timedOut /\ t.elapsed = 0

\* C6 witness: the detached spawn failed.
C6_Witness ==
    \E p \in Procs : task[p].err = "SpawnFailed" /\ task[p].detached = 1

\* C7: launch with an unrecognized mode returns the invalid-mode error, the
\* mode is not coerced, nothing is spawned and the trust session is left
\* alone.
C7_InvalidModeError ==
    \A p \in Procs :
        LET t == task[p] IN
        t.mode \in InvalidModes
            => /\ t.command = ""
               /\ t.detached = 0 /\ t.interactive = 0 /\ t.hosts = 0
               /\ t.invalidated = 0 /\ t.removed = 0
               /\ t.pc # "done"
               /\ t.pc = "failed" => t.err = "InvalidMode"

\* C8: a file content whose number of ':'-separated fields is not 4 is
\* answered with false, whatever the fields hold.
C8_WrongFieldCountInvalid ==
    (Answered /\ NumFields(cmd.file) # 4) => cmd.res = "OkFalse"

\* C8 witness: five fields, the second of which is an expiry in the future.
C8_Witness ==
    /\ Answered /\ NumFields(cmd.file) = 5
    /\ Expiry(cmd.file).ok /\ cmd.now < Expiry(cmd.file).val
    /\ cmd.res = "OkFalse"

\* C9: a session whose expires_at is at or before now is answered with
\* false, whatever the other fields hold; the answer is true only for four
\* fields with now < expires_at.
C9_ExpiredInvalid ==
    Answered =>
        /\ (NumFields(cmd.file) >= 2 /\ Expiry(cmd.file).ok
            /\ Expiry(cmd.file).val <= cmd.now) => cmd.res = "OkFalse"
        /\ cmd.res = "OkTrue" <=> ValidSession(cmd.file, cmd.now)

\* C9 witness: four fields and expires_at equal to now.
C9_Witness ==
    /\ Answered /\ NumFields(cmd.file) = 4
    /\ Expiry(cmd.file).ok /\ Expiry(cmd.file).val = cmd.now
    /\ cmd.res = "OkFalse"

\* C10: a content of four fields whose expires_at is not a number is answered
\* like no session: false, not an error.
C10_UnparsableIsAbsent ==
    (Answered /\ NumFields(cmd.file) = 4 /\ ~Expiry(cmd.file).ok)
        => cmd.res = "OkFalse"


\* ------------------------------------------------------------ C11 .. C13
\* C11: a request to an endpoint without a listener fails with the
\* connection error kind, never with the timeout kind, and before anything
\* was written or read.
C11_NoListenerConnectionFailed ==
    (req.tried /\ ~req.listener) =>
        /\ req.pc = "failed"
        /\ req.err = "ConnectionFailed"
        /\ req.err # "Timeout"
        /\ req.inbox = <<>> /\ req.idle = 0

\* A request was refused by a socket file that nobody listens on.
C11_Witness ==
    /\ req.pc = "failed" /\ req.tried /\ ~req.listener
    /\ req.err = "ConnectionFailed"

\* C12: on every platform a request whose peer accepted the connection and
\* sends no full line does not wait beyond the read timeout.
C12_SilentPeerTimesOut ==
    (req.pc = "read" /\ req.conn = "open" /\ ~HasLine(req.inbox)) =>
        req.idle <= ReadTimeoutTicks

\* C13: when the peer echoes the payload and one line terminator, the
\* request returns exactly the payload.
C13_EchoRoundTrip ==
    (req.pc = "done" /\ req.echoed) => req.response = req.request

C15_SuccessNeedsHost ==
    \A p \in Procs :
        (task[p].pc = "done" /\ task[p].interactive >= 1) =>
            task[p].hosts >= 1

\* C16: the running check of the eligibility check and of every readiness
\* probe answers true exactly when the endpoint accepts connections.
C16_RunningIffAccepting ==
    \A p \in Procs :
        /\ task[p].daemon_already_running <=> task[p].checkEndpoint = "live"
        /\ task[p].sawRunning => task[p].probeEndpoint = "live"

\* C17: one invocation makes at most one detached spawn and starts at most
\* one terminal host.
C17_NoRetry ==
    \A p \in Procs :
        /\ task[p].detached <= 1
        /\ task[p].invalidated <= 1
        /\ task[p].hosts <= 1

\* ------------------------------------------------------------------- C18
\* C18: nothing excludes a second invocation: while another invocation has
\* spawned a detached daemon that does not listen yet, launch("daemon") with
\* a valid trust session that observes no daemon passes the eligibility
\* check and goes on to spawn a daemon of its own.
C18_SecondInvocationNotExcluded ==
    [][\A p \in Procs : \A q \in Procs \ {p} :
          ( /\ task[q].spawned = 1 /\ task[q].pc \in {"poll", "sleep"}
            /\ task[p].pc = "check_running"
            /\ task[p].mode = "daemon" /\ task[p].has_trust_session
            /\ ~DaemonObserved
            /\ task'[p].pc # "check_running" )
          => task'[p].pc = "spawn_detached"]_vars

\* Both invocations have spawned a detached daemon and wait for it.
C18_Witness ==
    /\ \A p \in Procs : /\ task[p].mode = "daemon" /\ task[p].spawned = 1
                        /\ task[p].pc \in {"poll", "sleep"}
    /\ daemons >= 2

\* ------------------------------------------------------------------- C19
\* A step of one of the commands of the core (not of the daemon, the user or
\* the clock).
CoreStep ==
    \/ \E p \in Procs : Step(p)
    \/ \E payload \in Payloads : Request(payload)
    \/ ReqConnect \/ ReqSetTimeouts \/ ReqWrite \/ ReqWait \/ ReqRead
    \/ ReqReturn
    \/ CancelLaunch \/ KillReturn
    \/ CheckTrustSessionCmd \/ CmdReturn

\* C19: no step of a command creates or rewrites the trust session; the only
\* change a command makes is its removal, by launch("daemon") after a
\* detached spawn whose readiness poll timed out.
C19_CoreOnlyDeletesAfterTimeout ==
    [][CoreStep =>
         \/ trustFile' = trustFile
         \/ /\ trustFile' = NoFile
            /\ \E p \in Procs :
                 /\ task[p].pc = "invalidate" /\ task'[p].removed = 1
                 /\ task[p].mode = "daemon" /\ task[p].spawned = 1
                 /\ task[p].timedOut /\ ~task[p].sawRunning]_vars

\* A launch has removed the session after its poll timed out.
C19_Witness ==
    \E p \in Procs : /\ task[p].removed = 1 /\ task[p].timedOut
                     /\ task[p].pc = "interactive" /\ trustFile = NoFile

\* ------------------------------------------------------------------- C20
\* The invocation has taken the background launch.
TookSilentPath(t) ==
    \/ t.pc \in {"spawn_detached", "poll", "sleep", "invalidate"}
    \/ t.detached > 0

\* C20 as stated: after an invocation of launch("daemon") whose poll timed
\* out, and with no session written since, the next launch("daemon") does not
\* take the background launch again.
C20_NextLaunchSkipsSilent ==
    \A p \in Procs :
        (task[p].mode = "daemon" /\ Decided(task[p])
         /\ task[p].prior # "none") => ~TookSilentPath(task[p])

\* C20: when the removal after the timed-out poll left no session file, and
\* no session was written since, the next launch("daemon") does not take the
\* background launch again and goes to the terminal launch.
C20_PurgedSkipsSilent ==
    \A p \in Procs :
        (task[p].mode = "daemon" /\ Decided(task[p])
         /\ task[p].prior = "purged") =>
            /\ ~TookSilentPath(task[p])
            /\ task[p].pc = "interactive" \/ task[p].interactive = 1

\* The launch after a purge is at the terminal launch without a spawn.
C20_Witness ==
    \E p \in Procs :
        /\ task[p].mode = "daemon" /\ task[p].prior = "purged"
        /\ task[p].pc = "interactive" /\ task[p].detached = 0

\* ------------------------------------------------------------------- C21
\* C21: every invocation of launch_key_signer ends in success or in an
\* error: each sleep of the readiness poll starts below the bound and moves
\* the elapsed time on by at least one interval, so at most TimeoutTicks
\* sleeps fit, and the loop ends even if the daemon never listens.
C21_LaunchTerminates ==
    /\ [][\A p \in Procs :
            (task[p].pc = "sleep" /\ task'[p].pc = "poll") =>
                /\ task[p].elapsed < TimeoutTicks
                /\ task'[p].elapsed > task[p].elapsed
                /\ task'[p].elapsed <= TimeoutTicks]_vars
    /\ (task[1].pc # "idle") ~> Finished(task[1])

\* The poll ended by the bound, never having seen the daemon, and the
\* invocation has ended.
C21_Witness ==
    /\ Finished(task[1]) /\ task[1].timedOut /\ ~task[1].sawRunning
    /\ task[1].elapsed = TimeoutTicks

\* ------------------------------------------------------------------- C22
\* C22: the removal of the trust session after a timed-out poll never fails
\* the invocation: whether the file was removed, was absent already or could
\* not be removed, the invocation goes on to the terminal launch, and an
\* error it ends in is an error of the terminal launch.
C22_InvalidateNeverFails ==
    \A p \in Procs :
        task[p].invalidated >= 1 =>
            /\ task[p].pc = "interactive" \/ task[p].interactive = 1
            /\ task[p].pc = "failed" =>
                   task[p].err \in {"NoTerminal", "TerminalFailed"}

\* The removal failed, the file is still there, and the invocation is at the
\* terminal launch.
C22_Witness ==
    \E p \in Procs :
        /\ task[p].pc = "interactive" /\ task[p].invalidated = 1
        /\ task[p].removed = 0 /\ stall = "kept" /\ trustFile # NoFile

\* ------------------------------------------------------------------- C23
\* C23: a request returns success only when a complete line, ended by the
\* line terminator, was received.
C23_SuccessNeedsLine ==
    req.pc = "done" => HasLine(req.inbox)

\* ------------------------------------------------------------------- C24
\* C24: when launch("daemon") has started a terminal host after its poll
\* timed out, the detached daemon it spawned is gone: the invocation leaves
\* no more than one daemon process.
C24_FallbackLeavesOneDaemon ==
    ( /\ task[1].command = "daemon" /\ task[1].spawned = 1
      /\ task[1].timedOut /\ task[1].hosts = 1 ) => daemons <= 1

\* ------------------------------------------------------------------- C25
\* C25: the trust session an invocation removes after its timed-out poll is
\* the one it read at its eligibility check, never one written since.
C25_RemovesWhatWasRead ==
    [][\A p \in Procs :
          (task[p].pc = "invalidate" /\ task'[p].removed > task[p].removed)
          => trustFile = task[p].seenFile]_vars

\* ------------------------------------------------------------------- C26
\* C26: for a mode that is not recognized, launch changes nothing in the
\* file system (no directory created, no binary copied, no permissions set)
\* and the error it returns is never the installation error.
C26_ValidationBeforeEffects ==
    \A p \in Procs :
        task[p].mode \in InvalidModes =>
            /\ ~task[p].touched
            /\ task[p].err # "InstallFailed"


====
